---- MODULE Spec2Model ----
(***************************************************************************)
(* makedocs.py: scan <project>/day<N>/<lang>/<user>/ for solutions and     *)
(* write gen/adoc/by_user.adoc, gen/adoc/users/<user>.adoc,                *)
(* gen/adoc/by_lang.adoc and gen/adoc/by_day.adoc.                         *)
(*                                                                         *)
(* Strings are sequences of one-character strings, so that startswith,     *)
(* slicing, int(), str(), quote(), padding and string comparison are       *)
(* computed the way Python computes them.  A path is a sequence of names.  *)
(* A written file is a sequence of lines; a line is a record whose field t *)
(* says which write call of the source produced it.                        *)
(***************************************************************************)
EXTENDS Integers, Sequences, FiniteSets, TLC

VARIABLES
    fs,      \* the project directory: a set of leaves [path, isdir]
    pc,      \* position in the module body, lines 206-209
    sols,    \* the module-level list of Solution
    files,   \* output files: path -> sequence of lines
    dirs,    \* directories created by os.makedirs
    frames   \* locals of the three writers while they run step by step

vars == <<fs, pc, sols, files, dirs, frames>>

(***************************************************************************)
(* Bounds                                                                  *)
(***************************************************************************)
MaxSols == 3
MaxRoot == 2

(***************************************************************************)
(* Python values                                                           *)
(***************************************************************************)
\* None, and a present value; None is falsy like the empty string
None == <<>>
Some(x) == <<x>>

\* the printable ASCII characters in code point order, from chr(32); the
\* grave accent, chr(96), is spelled out (no name of the model holds it)
Printable ==
    <<" ", "!", "\"", "#", "$", "%", "&", "'", "(", ")", "*", "+", ",", "-", ".",
      "/", "0", "1", "2", "3", "4", "5", "6", "7", "8", "9", ":", ";", "<", "=",
      ">", "?", "@", "A", "B", "C", "D", "E", "F", "G", "H", "I", "J", "K", "L",
      "M", "N", "O", "P", "Q", "R", "S", "T", "U", "V", "W", "X", "Y", "Z", "[",
      "\\", "]", "^", "_", "grave", "a", "b", "c", "d", "e", "f", "g", "h", "i", "j",
      "k", "l", "m", "n", "o", "p", "q", "r", "s", "t", "u", "v", "w", "x", "y",
      "z", "{", "|", "}", "~">>

\* ord(c)
CodePoint == [c \in {Printable[i] : i \in DOMAIN Printable} |->
                 31 + (CHOOSE i \in DOMAIN Printable : Printable[i] = c)]

Ord(c) == CodePoint[c]

\* str < str: lexicographic by code point
RECURSIVE StrLess(_, _)
StrLess(a, b) ==
    IF b = <<>> THEN FALSE
    ELSE IF a = <<>> THEN TRUE
    ELSE IF Head(a) = Head(b) THEN StrLess(Tail(a), Tail(b))
    ELSE Ord(Head(a)) < Ord(Head(b))

DigitChars == <<"0", "1", "2", "3", "4", "5", "6", "7", "8", "9">>

IsDigit(c) == \E i \in DOMAIN DigitChars : DigitChars[i] = c

DigitVal(c) == (CHOOSE i \in DOMAIN DigitChars : DigitChars[i] = c) - 1

IsSpace(c) == c \in {" ", "\t", "\n", "\r"}

RECURSIVE LStrip(_)
LStrip(s) == IF s # <<>> /\ IsSpace(Head(s)) THEN LStrip(Tail(s)) ELSE s

RECURSIVE RStrip(_)
RStrip(s) ==
    IF s # <<>> /\ IsSpace(s[Len(s)]) THEN RStrip(SubSeq(s, 1, Len(s) - 1)) ELSE s

\* digits, with single underscores allowed between two digits
DigitGroupOk(s) ==
    /\ s # <<>>
    /\ \A i \in DOMAIN s :
          \/ IsDigit(s[i])
          \/ /\ s[i] = "_"
             /\ i > 1 /\ i < Len(s)
             /\ IsDigit(s[i - 1]) /\ IsDigit(s[i + 1])

RECURSIVE DigitGroupValue(_, _)
DigitGroupValue(s, acc) ==
    IF s = <<>> THEN acc
    ELSE IF Head(s) = "_" THEN DigitGroupValue(Tail(s), acc)
    ELSE DigitGroupValue(Tail(s), 10 * acc + DigitVal(Head(s)))

\* int(s): Some(n), or None where Python raises ValueError
int(s) ==
    LET t == RStrip(LStrip(s))
        signed == t # <<>> /\ Head(t) \in {"+", "-"}
        body == IF signed THEN Tail(t) ELSE t
    IN  IF ~DigitGroupOk(body) THEN None
        ELSE IF signed /\ Head(t) = "-" THEN Some(0 - DigitGroupValue(body, 0))
        ELSE Some(DigitGroupValue(body, 0))

\* str(n) of a natural number
RECURSIVE StrNat(_)
StrNat(n) ==
    IF n < 10 THEN <<DigitChars[n + 1]>>
    ELSE StrNat(n \div 10) \o <<DigitChars[(n % 10) + 1]>>

\* str(n) of an int
str(n) == IF n < 0 THEN <<"-">> \o StrNat(0 - n) ELSE StrNat(n)

Spaces(n) == [i \in 1..n |-> " "]

\* format(n, "2") of an int: right-aligned in the field
FormatInt(n, width) ==
    LET s == str(n) IN IF Len(s) >= width THEN s ELSE Spaces(width - Len(s)) \o s

\* format(s, "<width>") of a str: left-aligned in the field
FormatStr(s, width) ==
    IF Len(s) >= width THEN s ELSE s \o Spaces(width - Len(s))

HexChars == <<"0", "1", "2", "3", "4", "5", "6", "7", "8", "9",
              "A", "B", "C", "D", "E", "F">>

IsAlpha(c) == (Ord(c) >= 65 /\ Ord(c) <= 90) \/ (Ord(c) >= 97 /\ Ord(c) <= 122)

\* urllib.parse.quote(s) with its default safe="/"
RECURSIVE quote(_)
quote(s) ==
    IF s = <<>> THEN <<>>
    ELSE LET c == Head(s) IN
         (IF IsAlpha(c) \/ IsDigit(c) \/ c \in {"_", ".", "-", "~", "/"}
          THEN <<c>>
          ELSE <<"%", HexChars[(Ord(c) \div 16) + 1], HexChars[(Ord(c) % 16) + 1]>>)
         \o quote(Tail(s))

\* s.startswith(p)
StartsWith(s, p) == Len(s) >= Len(p) /\ SubSeq(s, 1, Len(p)) = p

(***************************************************************************)
(* Module constants                                                        *)
(***************************************************************************)
README_FILE == <<"R", "E", "A", "D", "M", "E", ".", "a", "d", "o", "c">>
DAY_DIR_PREFIX == <<"d", "a", "y">>
ADOC_GEN_DIR == << <<"g", "e", "n">>, <<"a", "d", "o", "c">> >>
ADOC_BY_LANG_FILE ==
    ADOC_GEN_DIR \o << <<"b", "y", "_", "l", "a", "n", "g", ".", "a", "d", "o", "c">> >>
ADOC_BY_USER_FILE ==
    ADOC_GEN_DIR \o << <<"b", "y", "_", "u", "s", "e", "r", ".", "a", "d", "o", "c">> >>
ADOC_BY_DAY_FILE ==
    ADOC_GEN_DIR \o << <<"b", "y", "_", "d", "a", "y", ".", "a", "d", "o", "c">> >>

(***************************************************************************)
(* The file system read by list_solutions.  A tree is a prefix-free set of *)
(* leaves; every proper prefix of a leaf path is a directory.  Paths are   *)
(* relative to project_dir.                                                *)
(***************************************************************************)
IsPrefix(p, q) == Len(p) <= Len(q) /\ SubSeq(q, 1, Len(p)) = p

\* os.path.isdir
IsDir(tree, p) ==
    \E x \in tree : \/ x.path = p /\ x.isdir
                    \/ Len(x.path) > Len(p) /\ IsPrefix(p, x.path)

\* os.path.exists
Exists(tree, p) == \E x \in tree : IsPrefix(p, x.path)

\* the names os.listdir returns, as a set
ListDir(tree, p) ==
    {x.path[Len(p) + 1] : x \in {y \in tree : Len(y.path) > Len(p) /\ IsPrefix(p, y.path)}}

\* the orders in which os.listdir may return the names S
Listings(S) ==
    {l \in [1..Cardinality(S) -> S] : \A i, j \in 1..Cardinality(S) : i # j => l[i] # l[j]}

\* the lists a loop can build when its i-th iteration appends one of ss[i]
RECURSIVE ConcatChoices(_)
ConcatChoices(ss) ==
    IF ss = <<>> THEN {<<>>}
    ELSE {a \o b : a \in Head(ss), b \in ConcatChoices(Tail(ss))}

(***************************************************************************)
(* list_solutions                                                          *)
(***************************************************************************)
Solution(user, lang, day, dir, readme_file) ==
    [user |-> user, lang |-> lang, day |-> day, dir |-> dir, readme_file |-> readme_file]

\* one iteration of the loop over users: what it appends
UserEntry(tree, day_dir_name, day, lang, user) ==
    LET user_dir == <<day_dir_name, lang, user>> IN
    IF ~IsDir(tree, user_dir) THEN <<>>
    ELSE <<Solution(user, lang, day, user_dir,
                    IF Exists(tree, user_dir \o <<README_FILE>>) THEN README_FILE ELSE None)>>

\* one iteration of the loop over languages: the lists it may append
LangEntry(tree, day_dir_name, day, lang) ==
    LET lang_dir == <<day_dir_name, lang>> IN
    IF ~IsDir(tree, lang_dir) THEN {<<>>}
    ELSE UNION {ConcatChoices([i \in 1..Len(l) |->
                                  {UserEntry(tree, day_dir_name, day, lang, l[i])}]) :
                l \in Listings(ListDir(tree, lang_dir))}

\* faulty variant of DayOf: the name is not tested for the prefix
DayNoPrefixTest(tree, day_dir_name) ==
    IF ~IsDir(tree, <<day_dir_name>>) THEN None
    ELSE int(SubSeq(day_dir_name, Len(DAY_DIR_PREFIX) + 1, Len(day_dir_name)))

\* lines 47-57: the day of a root entry; None where the loop continues
DayOf(tree, day_dir_name) ==
    IF ~IsDir(tree, <<day_dir_name>>) \/ ~StartsWith(day_dir_name, DAY_DIR_PREFIX)
    THEN None
    ELSE int(SubSeq(day_dir_name, Len(DAY_DIR_PREFIX) + 1, Len(day_dir_name)))

\* one iteration of the loop over the root entries: the lists it may append
DayEntry(tree, day_dir_name) ==
    LET day == DayOf(tree, day_dir_name) IN
    IF day = None THEN {<<>>}
    ELSE UNION {ConcatChoices([i \in 1..Len(l) |->
                                  LangEntry(tree, day_dir_name, day[1], l[i])]) :
                l \in Listings(ListDir(tree, <<day_dir_name>>))}

\* the lists list_solutions may return, one per listing order
list_solutions(tree) ==
    UNION {ConcatChoices([i \in 1..Len(l) |-> DayEntry(tree, l[i])]) :
           l \in Listings(ListDir(tree, <<>>))}

(***************************************************************************)
(* Output files                                                            *)
(***************************************************************************)
\* os.path.dirname
dirname(path) == SubSeq(path, 1, Len(path) - 1)

\* os.path.isabs
isabs(s) == s # <<>> /\ Head(s) = "/"

\* os.makedirs(path, exist_ok=True)
makedirs(out, path) ==
    [out EXCEPT !.dirs = @ \cup {SubSeq(path, 1, k) : k \in 1..Len(path)}]

\* open(path, 'w'): the file is created or truncated
open_w(out, path) ==
    [out EXCEPT !.files = [q \in DOMAIN @ \cup {path} |-> IF q = path THEN <<>> ELSE @[q]]]

\* f.write, one line per call
write(out, path, lines) ==
    [out EXCEPT !.files = [q \in DOMAIN @ \cup {path} |->
                              IF q = path
                              THEN (IF path \in DOMAIN @ THEN @[path] ELSE <<>>) \o lines
                              ELSE @[q]]]

Lit(s) == [t |-> "lit", s |-> s]

TopAnchor == Lit("[[top]]\n")

NavLine ==
    Lit("link:by_day.html[Solutions by Day] &bull; link:by_lang.html[Solutions by Language] &bull; link:by_user.html[Solutions by User]\n\n")

UserNavLine ==
    Lit("link:../by_day.html[Solutions by Day] &bull; link:../by_lang.html[Solutions by Language] &bull; link:../by_user.html[Solutions by User]\n\n")

TableMark == Lit("|===\n")

TableEnd == Lit("|===\n\n")

TopLink == Lit("link:#top[Top]\n")

TopLinkPar == Lit("link:#top[Top]\n\n")

\* users/{quote(user)}.html
UserHref(user) ==
    <<"u", "s", "e", "r", "s", "/">> \o quote(user) \o <<".", "h", "t", "m", "l">>

\* sol-{day}
SolAnchor(day) == <<"s", "o", "l", "-">> \o str(day)

(***************************************************************************)
(* make_user_docs                                                          *)
(***************************************************************************)
\* the keys of sols_for_users, in insertion order
RECURSIVE DictKeys(_)
DictKeys(ss) ==
    IF ss = <<>> THEN <<>>
    ELSE LET r == DictKeys(SubSeq(ss, 1, Len(ss) - 1))
             u == ss[Len(ss)].user
         IN  IF \E i \in DOMAIN r : r[i] = u THEN r ELSE Append(r, u)

\* sols_for_users[user]
sols_for_users(ss, user) == SelectSeq(ss, LAMBDA sol : sol.user = user)

\* faulty variant of ScoreLess: the total count before the documented count
ScoreLessTotFirst(x, y) ==
    \/ 0 - x[2] < 0 - y[2]
    \/ /\ x[2] = y[2]
       /\ \/ 0 - x[3] < 0 - y[3]
          \/ x[3] = y[3] /\ StrLess(x[1], y[1])

\* the key (-x[2], -x[1], x[0]) of a score (user, n_tot, n_doc), compared as tuples
ScoreLess(x, y) ==
    \/ 0 - x[3] < 0 - y[3]
    \/ /\ x[3] = y[3]
       /\ \/ 0 - x[2] < 0 - y[2]
          \/ x[2] = y[2] /\ StrLess(x[1], y[1])

\* list.sort and sorted are stable: an element goes behind those whose key is
\* less and those whose key is equal and that came earlier.
\* line 106: user_scores.sort
SortScores(s) ==
    LET rank(i) == 1 + Cardinality({j \in DOMAIN s :
                           \/ ScoreLess(s[j], s[i])
                           \/ ~ScoreLess(s[i], s[j]) /\ j < i})
    IN  [k \in DOMAIN s |-> s[CHOOSE i \in DOMAIN s : rank(i) = k]]

\* user_scores after its sort
user_scores(ss) ==
    LET keys == DictKeys(ss)
        score(user) ==
            LET user_sols == sols_for_users(ss, user) IN
            <<user, Len(user_sols),
              Len(SelectSeq(user_sols, LAMBDA sol : sol.readme_file # <<>>))>>
    IN  SortScores([i \in DOMAIN keys |-> score(keys[i])])

\* faulty variant of PageKeyLess: the language before the day
PageKeyLessLangFirst(a, b) ==
    StrLess(a.lang, b.lang) \/ (a.lang = b.lang /\ a.day < b.day)

\* the key (sol.day, sol.lang)
PageKeyLess(a, b) ==
    a.day < b.day \/ (a.day = b.day /\ StrLess(a.lang, b.lang))

\* line 125: the user's solutions in the order of the page
SortPage(s) ==
    LET rank(i) == 1 + Cardinality({j \in DOMAIN s :
                           \/ PageKeyLess(s[j], s[i])
                           \/ ~PageKeyLess(s[i], s[j]) /\ j < i})
    IN  [k \in DOMAIN s |-> s[CHOOSE i \in DOMAIN s : rank(i) = k]]

\* faulty variant of user_file: the page goes beside the summary
UserFileFlat(adoc_file, user) ==
    dirname(adoc_file) \o <<user \o <<".", "a", "d", "o", "c">> >>

\* line 119: the path of a user's page
user_file(adoc_file, user) ==
    dirname(adoc_file)
        \o << <<"u", "s", "e", "r", "s">>, user \o <<".", "a", "d", "o", "c">> >>

\* the lines written for one solution of a user's page
PageEntry(sol) ==
    LET readme_file ==
            IF sol.readme_file = <<>> \/ isabs(sol.readme_file)
            THEN (IF sol.readme_file = <<>> THEN <<>> ELSE <<sol.readme_file>>)
            ELSE sol.dir \o <<sol.readme_file>>
    IN  <<[t |-> "anchor", id |-> SolAnchor(sol.day)],
          IF readme_file # <<>>
          THEN [t |-> "include", path |-> readme_file]
          ELSE [t |-> "undocumented", lang |-> sol.lang, day |-> str(sol.day)],
          TopLink>>

RECURSIVE Flatten(_)
Flatten(ss) == IF ss = <<>> THEN <<>> ELSE Head(ss) \o Flatten(Tail(ss))

\* a user's page
UserPage(user, user_sols) ==
    LET in_order == SortPage(user_sols) IN
    <<TopAnchor, [t |-> "title", user |-> user], UserNavLine>>
        \o Flatten([i \in DOMAIN in_order |-> PageEntry(in_order[i])])

\* lines 108-113
UserOpen(out, adoc_file) ==
    write(open_w(makedirs(out, dirname(adoc_file)), adoc_file),
          adoc_file,
          <<TopAnchor, Lit("= Solutions by user\n\n"), NavLine, TableMark>>)

\* lines 115-135, one iteration
UserIter(out, adoc_file, ss, score) ==
    LET user == score[1]
        row == [t |-> "user_row", href |-> UserHref(user), label |-> user,
                n_tot |-> str(score[2]),
                plural |-> IF score[2] # 1 THEN "s" ELSE "",
                n_doc |-> str(score[3])]
        f == user_file(adoc_file, user)
    IN  write(open_w(makedirs(write(out, adoc_file, <<row>>), dirname(f)), f),
              f,
              UserPage(user, sols_for_users(ss, user)))

\* line 137
UserClose(out, adoc_file) == write(out, adoc_file, <<TableMark>>)

RECURSIVE UserLoop(_, _, _, _, _)
UserLoop(out, adoc_file, ss, scores, i) ==
    IF i > Len(scores) THEN out
    ELSE UserLoop(UserIter(out, adoc_file, ss, scores[i]), adoc_file, ss, scores, i + 1)

make_user_docs(out, ss, adoc_file) ==
    UserClose(UserLoop(UserOpen(out, adoc_file), adoc_file, ss, user_scores(ss), 1),
              adoc_file)

(***************************************************************************)
(* make_lang_doc                                                           *)
(***************************************************************************)
\* faulty variant of LangKeyLess: the day before the language
LangKeyLessDayFirst(a, b) ==
    \/ a.day < b.day
    \/ /\ a.day = b.day
       /\ \/ StrLess(a.lang, b.lang)
          \/ a.lang = b.lang /\ StrLess(a.user, b.user)

\* the key (sol.lang, sol.day, sol.user)
LangKeyLess(a, b) ==
    \/ StrLess(a.lang, b.lang)
    \/ /\ a.lang = b.lang
       /\ \/ a.day < b.day
          \/ a.day = b.day /\ StrLess(a.user, b.user)

\* line 155: the solutions in the order of the by-language overview
SortByLang(s) ==
    LET rank(i) == 1 + Cardinality({j \in DOMAIN s :
                           \/ LangKeyLess(s[j], s[i])
                           \/ ~LangKeyLess(s[i], s[j]) /\ j < i})
    IN  [k \in DOMAIN s |-> s[CHOOSE i \in DOMAIN s : rank(i) = k]]

\* lines 148-154; cur_lang and cur_day start as None
LangOpen(out, adoc_file) ==
    write(open_w(makedirs(out, dirname(adoc_file)), adoc_file),
          adoc_file,
          <<TopAnchor, Lit("= Solutions by language\n\n"), NavLine>>)

\* lines 156-163, one iteration: the lines it writes
LangIterLines(sol, cur_lang, cur_day) ==
    (IF cur_lang # Some(sol.lang)
     THEN (IF cur_lang # None THEN <<TableEnd, TopLinkPar>> ELSE <<>>)
          \o <<[t |-> "section", title |-> sol.lang], TableMark>>
     ELSE <<>>)
    \o <<[t |-> "row",
          cell |-> IF Some(sol.day) # cur_day THEN FormatInt(sol.day, 2)
                   ELSE FormatStr(<<>>, 2),
          href |-> UserHref(sol.user),
          frag |-> SolAnchor(sol.day),
          label |-> sol.user]>>

\* lines 168-170
LangClose(out, adoc_file, cur_lang) ==
    IF cur_lang # None THEN write(out, adoc_file, <<TableMark, TopLinkPar>>) ELSE out

RECURSIVE LangLoop(_, _, _, _, _, _)
LangLoop(out, adoc_file, ss, i, cur_lang, cur_day) ==
    IF i > Len(ss) THEN LangClose(out, adoc_file, cur_lang)
    ELSE LangLoop(write(out, adoc_file, LangIterLines(ss[i], cur_lang, cur_day)),
                  adoc_file, ss, i + 1, Some(ss[i].lang), Some(ss[i].day))

make_lang_doc(out, ss, adoc_file) ==
    LangLoop(LangOpen(out, adoc_file), adoc_file, SortByLang(ss), 1, None, None)

(***************************************************************************)
(* make_day_doc                                                            *)
(***************************************************************************)
\* the key (sol.day, sol.lang, sol.user)
DayKeyLess(a, b) ==
    \/ a.day < b.day
    \/ /\ a.day = b.day
       /\ \/ StrLess(a.lang, b.lang)
          \/ a.lang = b.lang /\ StrLess(a.user, b.user)

\* line 188: the solutions in the order of the by-day overview
SortByDay(s) ==
    LET rank(i) == 1 + Cardinality({j \in DOMAIN s :
                           \/ DayKeyLess(s[j], s[i])
                           \/ ~DayKeyLess(s[i], s[j]) /\ j < i})
    IN  [k \in DOMAIN s |-> s[CHOOSE i \in DOMAIN s : rank(i) = k]]

\* lines 181-187; cur_day and cur_lang start as None
DayOpen(out, adoc_file) ==
    write(open_w(makedirs(out, dirname(adoc_file)), adoc_file),
          adoc_file,
          <<TopAnchor, Lit("= Solutions by day\n\n"), NavLine>>)

\* lines 189-196, one iteration: the lines it writes
DayIterLines(sol, cur_day, cur_lang) ==
    (IF cur_day # Some(sol.day)
     THEN (IF cur_day # None THEN <<TableEnd, TopLinkPar>> ELSE <<>>)
          \o <<[t |-> "section", title |-> <<"D", "a", "y", " ">> \o str(sol.day)],
               TableMark>>
     ELSE <<>>)
    \o <<[t |-> "row",
          cell |-> IF Some(sol.lang) # cur_lang THEN FormatStr(sol.lang, 10)
                   ELSE FormatStr(<<>>, 10),
          href |-> UserHref(sol.user),
          frag |-> SolAnchor(sol.day),
          label |-> sol.user]>>

\* lines 201-203
DayClose(out, adoc_file, cur_day) ==
    IF cur_day # None THEN write(out, adoc_file, <<TableMark, TopLinkPar>>) ELSE out

RECURSIVE DayLoop(_, _, _, _, _, _)
DayLoop(out, adoc_file, ss, i, cur_day, cur_lang) ==
    IF i > Len(ss) THEN DayClose(out, adoc_file, cur_day)
    ELSE DayLoop(write(out, adoc_file, DayIterLines(ss[i], cur_day, cur_lang)),
                 adoc_file, ss, i + 1, Some(ss[i].day), Some(ss[i].lang))

make_day_doc(out, ss, adoc_file) ==
    DayLoop(DayOpen(out, adoc_file), adoc_file, SortByDay(ss), 1, None, None)

(***************************************************************************)
(* The module body, lines 206-209                                          *)
(***************************************************************************)
Out == [files |-> files, dirs |-> dirs]

\* line 206
ListSolutions ==
    /\ pc = "list_solutions"
    /\ sols' \in list_solutions(fs)
    /\ pc' = "make_user_docs"
    /\ UNCHANGED <<fs, files, dirs, frames>>

\* line 207
MakeUserDocs ==
    /\ pc = "make_user_docs"
    /\ LET out == make_user_docs(Out, sols, ADOC_BY_USER_FILE) IN
       files' = out.files /\ dirs' = out.dirs
    /\ pc' = "make_lang_doc"
    /\ UNCHANGED <<fs, sols, frames>>

\* line 208
MakeLangDoc ==
    /\ pc = "make_lang_doc"
    /\ LET out == make_lang_doc(Out, sols, ADOC_BY_LANG_FILE) IN
       files' = out.files /\ dirs' = out.dirs
    /\ pc' = "make_day_doc"
    /\ UNCHANGED <<fs, sols, frames>>

\* line 209
MakeDayDoc ==
    /\ pc = "make_day_doc"
    /\ LET out == make_day_doc(Out, sols, ADOC_BY_DAY_FILE) IN
       files' = out.files /\ dirs' = out.dirs
    /\ pc' = "done"
    /\ UNCHANGED <<fs, sols, frames>>

Next == ListSolutions \/ MakeUserDocs \/ MakeLangDoc \/ MakeDayDoc

(***************************************************************************)
(* The three writers run in any order and interleaved, one with-block      *)
(* entry, loop iteration or exit at a time.  pc stays at line 207 while    *)
(* they run.  A write is taken to reach the file when it is made; the      *)
(* contents at close are the same with buffering.                          *)
(***************************************************************************)
InitFrames ==
    [user |-> [pc |-> "open", i |-> 1],
     lang |-> [pc |-> "open", i |-> 1, cur_lang |-> None, cur_day |-> None],
     day  |-> [pc |-> "open", i |-> 1, cur_day |-> None, cur_lang |-> None]]

StepUserOpen ==
    /\ pc = "make_user_docs" /\ frames.user.pc = "open"
    /\ LET out == UserOpen(Out, ADOC_BY_USER_FILE) IN
       files' = out.files /\ dirs' = out.dirs
    /\ frames' = [frames EXCEPT !.user.pc = "loop"]
    /\ UNCHANGED <<fs, pc, sols>>

StepUserIter ==
    /\ pc = "make_user_docs" /\ frames.user.pc = "loop"
    /\ frames.user.i <= Len(user_scores(sols))
    /\ LET out == UserIter(Out, ADOC_BY_USER_FILE, sols, user_scores(sols)[frames.user.i]) IN
       files' = out.files /\ dirs' = out.dirs
    /\ frames' = [frames EXCEPT !.user.i = @ + 1]
    /\ UNCHANGED <<fs, pc, sols>>

StepUserClose ==
    /\ pc = "make_user_docs" /\ frames.user.pc = "loop"
    /\ frames.user.i > Len(user_scores(sols))
    /\ LET out == UserClose(Out, ADOC_BY_USER_FILE) IN
       files' = out.files /\ dirs' = out.dirs
    /\ frames' = [frames EXCEPT !.user.pc = "done"]
    /\ UNCHANGED <<fs, pc, sols>>

StepLangOpen ==
    /\ pc = "make_user_docs" /\ frames.lang.pc = "open"
    /\ LET out == LangOpen(Out, ADOC_BY_LANG_FILE) IN
       files' = out.files /\ dirs' = out.dirs
    /\ frames' = [frames EXCEPT !.lang.pc = "loop"]
    /\ UNCHANGED <<fs, pc, sols>>

StepLangIter ==
    /\ pc = "make_user_docs" /\ frames.lang.pc = "loop"
    /\ frames.lang.i <= Len(sols)
    /\ LET sol == SortByLang(sols)[frames.lang.i]
           out == write(Out, ADOC_BY_LANG_FILE,
                        LangIterLines(sol, frames.lang.cur_lang, frames.lang.cur_day))
       IN  /\ files' = out.files /\ dirs' = out.dirs
           /\ frames' = [frames EXCEPT !.lang.i = @ + 1,
                                       !.lang.cur_lang = Some(sol.lang),
                                       !.lang.cur_day = Some(sol.day)]
    /\ UNCHANGED <<fs, pc, sols>>

StepLangClose ==
    /\ pc = "make_user_docs" /\ frames.lang.pc = "loop"
    /\ frames.lang.i > Len(sols)
    /\ LET out == LangClose(Out, ADOC_BY_LANG_FILE, frames.lang.cur_lang) IN
       files' = out.files /\ dirs' = out.dirs
    /\ frames' = [frames EXCEPT !.lang.pc = "done"]
    /\ UNCHANGED <<fs, pc, sols>>

StepDayOpen ==
    /\ pc = "make_user_docs" /\ frames.day.pc = "open"
    /\ LET out == DayOpen(Out, ADOC_BY_DAY_FILE) IN
       files' = out.files /\ dirs' = out.dirs
    /\ frames' = [frames EXCEPT !.day.pc = "loop"]
    /\ UNCHANGED <<fs, pc, sols>>

StepDayIter ==
    /\ pc = "make_user_docs" /\ frames.day.pc = "loop"
    /\ frames.day.i <= Len(sols)
    /\ LET sol == SortByDay(sols)[frames.day.i]
           out == write(Out, ADOC_BY_DAY_FILE,
                        DayIterLines(sol, frames.day.cur_day, frames.day.cur_lang))
       IN  /\ files' = out.files /\ dirs' = out.dirs
           /\ frames' = [frames EXCEPT !.day.i = @ + 1,
                                       !.day.cur_day = Some(sol.day),
                                       !.day.cur_lang = Some(sol.lang)]
    /\ UNCHANGED <<fs, pc, sols>>

StepDayClose ==
    /\ pc = "make_user_docs" /\ frames.day.pc = "loop"
    /\ frames.day.i > Len(sols)
    /\ LET out == DayClose(Out, ADOC_BY_DAY_FILE, frames.day.cur_day) IN
       files' = out.files /\ dirs' = out.dirs
    /\ frames' = [frames EXCEPT !.day.pc = "done"]
    /\ UNCHANGED <<fs, pc, sols>>

\* all three writers have returned
Join ==
    /\ pc = "make_user_docs"
    /\ frames.user.pc = "done" /\ frames.lang.pc = "done" /\ frames.day.pc = "done"
    /\ pc' = "done"
    /\ UNCHANGED <<fs, sols, files, dirs, frames>>

NextAnyOrder ==
    \/ ListSolutions
    \/ StepUserOpen \/ StepUserIter \/ StepUserClose
    \/ StepLangOpen \/ StepLangIter \/ StepLangClose
    \/ StepDayOpen \/ StepDayIter \/ StepDayClose
    \/ Join

(***************************************************************************)
(* Project directories                                                     *)
(***************************************************************************)
Go == <<"g", "o">>
Py == <<"p", "y">>
Alice == <<"a", "l", "i", "c", "e">>
Bob == <<"b", "o", "b">>
BSpaceB == <<"b", " ", "b">>
Carol == <<"c", "a", "r", "o", "l">>
ByLang == <<"b", "y", "_", "l", "a", "n", "g">>
Day1 == <<"d", "a", "y", "1">>
Day01 == <<"d", "a", "y", "0", "1">>
Day2 == <<"d", "a", "y", "2">>
Day3 == <<"d", "a", "y", "3">>
Day03 == <<"d", "a", "y", "0", "3">>
Day4 == <<"d", "a", "y", "4">>

\* the subsets of S with at most k elements
RECURSIVE SubsetsUpTo(_, _)
SubsetsUpTo(S, k) ==
    IF k = 0 THEN {{}}
    ELSE LET P == SubsetsUpTo(S, k - 1) IN P \cup {p \cup {x} : p \in P, x \in S}

\* the tree with a user directory at every path of S, documented for those of D
SolutionTree(S, D) ==
    {[path |-> p, isdir |-> TRUE] : p \in S \ D}
        \cup {[path |-> p \o <<README_FILE>>, isdir |-> FALSE] : p \in D}

SolutionTrees(slots, k) ==
    UNION {{SolutionTree(S, D) : D \in SUBSET S} : S \in SubsetsUpTo(slots, k)}

\* day3, day03 and day4 in two languages for one user, two of these also for a
\* second user whose name quote() changes; at most MaxSols solutions
DocsTrees ==
    SolutionTrees({<<d, l, Alice>> : d \in {Day3, Day03, Day4}, l \in {Go, Py}}
                      \cup {<<Day3, Go, BSpaceB>>, <<Day4, Py, BSpaceB>>},
                  MaxSols)

\* day1 and day2, one language, three users
IndexTrees ==
    LET slots == {<<d, Go, u>> : d \in {Day1, Day2}, u \in {Alice, Bob, Carol}}
    IN  SolutionTrees(slots, Cardinality(slots))

\* one day, two languages, two users, one of them named like an overview
AnyOrderTrees ==
    LET slots == {<<Day1, l, u>> : l \in {Go, Py}, u \in {Alice, ByLang}}
    IN  SolutionTrees(slots, Cardinality(slots))

\* names of root entries: day numbers in several spellings, suffixes int()
\* rejects, names without the prefix
RootNames ==
    {Day1, Day01, Day2,
     <<"d", "a", "y", "-", "1">>, <<"d", "a", "y", "+", "1">>,
     <<"d", "a", "y", " ", "1">>, <<"d", "a", "y", "1", "_", "0">>,
     <<"d", "a", "y", "X">>, <<"d", "a", "y", "1", "X">>,
     <<"d", "a", "y", "_", "1">>, DAY_DIR_PREFIX,
     <<"d", "o", "c", "1">>, <<"d", "a">>, <<"D", "a", "y", "1">>}

\* what a root entry is: a file, a directory with a documented solution, or a
\* directory with an undocumented solution between entries that are files
RootShapes ==
    { {[path |-> <<>>, isdir |-> FALSE]},
      {[path |-> <<Go, Alice, README_FILE>>, isdir |-> FALSE]},
      {[path |-> <<Go, Alice>>, isdir |-> TRUE],
       [path |-> <<Go, Bob>>, isdir |-> FALSE],
       [path |-> <<Py>>, isdir |-> FALSE]} }

\* at most MaxRoot root entries, each of one of the shapes
ScanTrees ==
    UNION {{UNION {{[path |-> <<n>> \o x.path, isdir |-> x.isdir] : x \in shape[n]} : n \in N} :
            shape \in [N -> RootShapes]} :
           N \in SubsetsUpTo(RootNames, MaxRoot)}

InitWith(trees) ==
    /\ fs \in trees
    /\ pc = "list_solutions"
    /\ sols = <<>>
    /\ files = [p \in {} |-> <<>>]
    /\ dirs = {}
    /\ frames = InitFrames

InitScan == InitWith(ScanTrees)
InitDocs == InitWith(DocsTrees)
InitIndex == InitWith(IndexTrees)
InitAnyOrder == InitWith(AnyOrderTrees)

SpecScan == InitScan /\ [][Next]_vars
SpecDocs == InitDocs /\ [][Next]_vars
SpecIndex == InitIndex /\ [][Next]_vars
SpecAnyOrder == InitAnyOrder /\ [][NextAnyOrder]_vars

(***************************************************************************)
(* Reading the written files back                                          *)
(***************************************************************************)
LinesOf(path) == IF path \in DOMAIN files THEN files[path] ELSE <<>>

OfKind(lines, kind) == SelectSeq(lines, LAMBDA l : l.t = kind)

SeqToSet(s) == {s[i] : i \in DOMAIN s}

\* how often v occurs in s
Count(s, v) == Cardinality({i \in DOMAIN s : s[i] = v})

SameBag(s, r) ==
    Len(s) = Len(r) /\ \A v \in SeqToSet(s) \cup SeqToSet(r) : Count(s, v) = Count(r, v)

\* the sections of an overview: each heading with the rows under it
RECURSIVE SectionsOf(_)
SectionsOf(lines) ==
    IF lines = <<>> THEN <<>>
    ELSE LET prev == SectionsOf(SubSeq(lines, 1, Len(lines) - 1))
             l == lines[Len(lines)]
         IN  IF l.t = "section" THEN Append(prev, [title |-> l.title, rows |-> <<>>])
             ELSE IF l.t = "row" /\ prev # <<>>
             THEN [prev EXCEPT ![Len(prev)].rows = Append(@, l)]
             ELSE prev

\* the day a link or an anchor sol-<day> names
AnchorDay(id) == int(SubSeq(id, 5, Len(id)))

\* the day a heading "Day <day>" names
HeadingDay(title) == int(SubSeq(title, 5, Len(title)))

IsBlank(cell) == \A i \in DOMAIN cell : cell[i] = " "

\* the entries of a user's page: each anchor with the line after it
PageEntries(lines) ==
    LET at == {i \in DOMAIN lines : lines[i].t = "anchor"}
        nth(k) == CHOOSE i \in at : Cardinality({j \in at : j < i}) = k - 1
    IN  [k \in 1..Cardinality(at) |->
            [anchor |-> lines[nth(k)].id, body |-> lines[nth(k) + 1]]]

EntryDay(e) == AnchorDay(e.anchor)[1]

EntryLang(e) == IF e.body.t = "include" THEN e.body.path[2] ELSE e.body.lang

\* what an entry says, and what the entry of a solution has to say
EntryFacts(e) ==
    IF e.body.t = "include"
    THEN [day |-> AnchorDay(e.anchor), include |-> e.body.path,
          heading |-> <<>>]
    ELSE IF e.body.t = "undocumented"
    THEN [day |-> AnchorDay(e.anchor), include |-> <<>>,
          heading |-> <<e.body.lang, int(e.body.day)>>]
    ELSE [day |-> AnchorDay(e.anchor), include |-> <<>>, heading |-> <<>>]

SolutionFacts(sol) ==
    IF sol.readme_file # None
    THEN [day |-> Some(sol.day), include |-> sol.dir \o <<sol.readme_file>>,
          heading |-> <<>>]
    ELSE [day |-> Some(sol.day), include |-> <<>>,
          heading |-> <<sol.lang, Some(sol.day)>>]

UsersOf(ss) == {ss[i].user : i \in DOMAIN ss}

Scanned == pc # "list_solutions"
UserDocsWritten == pc \in {"make_lang_doc", "make_day_doc", "done"}
LangDocWritten == pc \in {"make_day_doc", "done"}
DayDocWritten == pc = "done"

(***************************************************************************)
(* C1                                                                      *)
(***************************************************************************)
SolsFrom(day_dir_name) == SelectSeq(sols, LAMBDA sol : sol.dir[1] = day_dir_name)

Suffix(day_dir_name) == SubSeq(day_dir_name, Len(DAY_DIR_PREFIX) + 1, Len(day_dir_name))

\* the user directories below a root entry
UserDirsBelow(day_dir_name) ==
    {p \in {SubSeq(x.path, 1, 3) : x \in {y \in fs : Len(y.path) >= 3}} :
        p[1] = day_dir_name /\ IsDir(fs, p)}

IsDayDir(day_dir_name) ==
    /\ IsDir(fs, <<day_dir_name>>)
    /\ StartsWith(day_dir_name, DAY_DIR_PREFIX)
    /\ int(Suffix(day_dir_name)) # None

\* C1 as amended: a root entry is kept as a day directory exactly if it is a
\* directory, its name starts with "day" and int() accepts the rest of the name
\* (optional blanks around, an optional sign, digits with single underscores
\* between them); the value, which may be negative, is the day of every Solution
\* below it, and there is one Solution per user directory below it.  Every other
\* root entry contributes no Solution.
C1_DayDirs ==
    Scanned =>
        \A n \in ListDir(fs, <<>>) :
            IF IsDayDir(n)
            THEN /\ \A i \in DOMAIN SolsFrom(n) :
                        SolsFrom(n)[i].day = int(Suffix(n))[1]
                 /\ Len(SolsFrom(n)) = Cardinality(UserDirsBelow(n))
            ELSE SolsFrom(n) = <<>>

\* C1 as stated: the suffix of a kept entry parses as a non-negative integer
C1_Original ==
    Scanned =>
        \A n \in ListDir(fs, <<>>) :
            IF IsDayDir(n) /\ int(Suffix(n))[1] >= 0
            THEN \A i \in DOMAIN SolsFrom(n) : SolsFrom(n)[i].day = int(Suffix(n))[1]
            ELSE SolsFrom(n) = <<>>

\* C1, witness: a directory dayX with a user directory below it was skipped,
\* and a directory with a negative day was kept
C1_Witness ==
    /\ Scanned
    /\ \E n \in ListDir(fs, <<>>) :
          /\ Suffix(n) = <<"X">> /\ StartsWith(n, DAY_DIR_PREFIX)
          /\ UserDirsBelow(n) # {} /\ SolsFrom(n) = <<>>
    /\ \E n \in ListDir(fs, <<>>) :
          /\ SolsFrom(n) # <<>>
          /\ \A i \in DOMAIN SolsFrom(n) : SolsFrom(n)[i].day < 0

(***************************************************************************)
(* C2                                                                      *)
(***************************************************************************)
\* the directories day<N>/<language>/<user>
SolutionDirs == UNION {UserDirsBelow(n) : n \in {m \in ListDir(fs, <<>>) : IsDayDir(m)}}

Triple(sol) == <<sol.user, sol.lang, sol.day>>

\* the part of C2 that holds: the Solutions and the directories
\* day<N>/<language>/<user> correspond one to one
C2_Bijection ==
    Scanned =>
        /\ \A p \in SolutionDirs :
              /\ Cardinality({i \in DOMAIN sols : sols[i].dir = p}) = 1
              /\ \A i \in DOMAIN sols :
                    sols[i].dir = p =>
                        Triple(sols[i]) = <<p[3], p[2], int(Suffix(p[1]))[1]>>
        /\ \A i \in DOMAIN sols : sols[i].dir \in SolutionDirs

\* C2: the Solutions are in bijection with the directories
\* day<N>/<language>/<user>, and no two of them share (user, language, day)
C2_Claim ==
    /\ C2_Bijection
    /\ Scanned =>
          \A i, j \in DOMAIN sols : i # j => Triple(sols[i]) # Triple(sols[j])

(***************************************************************************)
(* C3                                                                      *)
(***************************************************************************)
SummaryRows == OfKind(LinesOf(ADOC_BY_USER_FILE), "user_row")

NTot(user) == Len(sols_for_users(sols, user))

NDoc(user) == Len(SelectSeq(sols_for_users(sols, user), LAMBDA sol : sol.readme_file # None))

\* one line per user, with the user's counts, ordered by documented count
\* descending, total count descending, name ascending
C3_Rule ==
    LET rows == SummaryRows IN
    /\ Len(rows) = Cardinality(UsersOf(sols))
    /\ \A u \in UsersOf(sols) :
          \E i \in DOMAIN rows :
              /\ rows[i].label = u
              /\ int(rows[i].n_tot) = Some(NTot(u))
              /\ int(rows[i].n_doc) = Some(NDoc(u))
    /\ \A i, j \in DOMAIN rows :
          i < j =>
              LET a == rows[i].label
                  b == rows[j].label
              IN  \/ NDoc(a) > NDoc(b)
                  \/ /\ NDoc(a) = NDoc(b)
                     /\ \/ NTot(a) > NTot(b)
                        \/ NTot(a) = NTot(b) /\ StrLess(a, b)

\* the users of the example: alice 2 of which 1 documented, bob 1/1, carol 2/0
C3_Example ==
    /\ UsersOf(sols) = {Alice, Bob, Carol}
    /\ NTot(Alice) = 2 /\ NDoc(Alice) = 1
    /\ NTot(Bob) = 1 /\ NDoc(Bob) = 1
    /\ NTot(Carol) = 2 /\ NDoc(Carol) = 0

RowLabels == [i \in DOMAIN SummaryRows |-> SummaryRows[i].label]

\* C3 as amended: the rule, and the example is emitted as alice, bob, carol
\* (alice and bob tie on the documented count, alice has more solutions)
C3_Summary ==
    UserDocsWritten =>
        /\ C3_Rule
        /\ C3_Example => RowLabels = <<Alice, Bob, Carol>>

\* C3 as stated: the rule, and the example is emitted as bob, alice, carol
C3_Original ==
    UserDocsWritten =>
        /\ C3_Rule
        /\ C3_Example => RowLabels = <<Bob, Alice, Carol>>

\* C3, witness: the summary was written for the users of the example
C3_Witness == UserDocsWritten /\ C3_Example

(***************************************************************************)
(* C4, C5                                                                  *)
(***************************************************************************)
LangSections == SectionsOf(LinesOf(ADOC_BY_LANG_FILE))

DaySections == SectionsOf(LinesOf(ADOC_BY_DAY_FILE))

AllRows(sections) == Flatten([i \in DOMAIN sections |-> sections[i].rows])

\* C4: in every language section of the by-language document a row shows its
\* day exactly if it is the first row of a run of equal consecutive days in that
\* section (so the first row of every section shows its day), and a blank cell
\* otherwise
C4_Claim ==
    LangDocWritten =>
        \A k \in DOMAIN LangSections :
            LET rows == LangSections[k].rows IN
            \A i \in DOMAIN rows :
                IF i = 1 \/ AnchorDay(rows[i - 1].frag) # AnchorDay(rows[i].frag)
                THEN int(rows[i].cell) = AnchorDay(rows[i].frag)
                ELSE IsBlank(rows[i].cell)

\* the solutions of a day in the order of their rows
DayRowsSols(day) ==
    SelectSeq(SortByDay(sols), LAMBDA sol : sol.day = day)

\* C5: in every day section of the by-day document a row shows its language
\* exactly if it is the first row of a run of equal consecutive languages in
\* that section (so the first row of every section shows its language), and a
\* blank cell otherwise
C5_Claim ==
    DayDocWritten =>
        \A k \in DOMAIN DaySections :
            LET rows == DaySections[k].rows
                of == DayRowsSols(HeadingDay(DaySections[k].title)[1])
            IN  /\ Len(rows) = Len(of)
                /\ \A i \in DOMAIN rows :
                      IF i = 1 \/ of[i - 1].lang # of[i].lang
                      THEN RStrip(rows[i].cell) = of[i].lang
                      ELSE IsBlank(rows[i].cell)

(***************************************************************************)
(* C6                                                                      *)
(***************************************************************************)
PageOf(user) == LinesOf(user_file(ADOC_BY_USER_FILE, user))

UserPagePaths ==
    {q \in DOMAIN files : Len(q) = Len(ADOC_BY_USER_FILE) + 1
                          /\ IsPrefix(dirname(ADOC_BY_USER_FILE), q)}

\* C6: the page of a user holds one entry per solution of that user and no
\* other, ordered by day and then language; an entry includes the README of a
\* documented solution and is a heading naming language and day otherwise
C6_UserPages ==
    UserDocsWritten =>
        /\ Cardinality(UserPagePaths) = Cardinality(UsersOf(sols))
        /\ \A u \in UsersOf(sols) :
              LET entries == PageEntries(PageOf(u))
                  mine == sols_for_users(sols, u)
              IN  /\ SameBag([i \in DOMAIN entries |-> EntryFacts(entries[i])],
                             [i \in DOMAIN mine |-> SolutionFacts(mine[i])])
                  /\ \A i, j \in DOMAIN entries :
                        i < j =>
                            \/ EntryDay(entries[i]) < EntryDay(entries[j])
                            \/ /\ EntryDay(entries[i]) = EntryDay(entries[j])
                               /\ ~StrLess(EntryLang(entries[j]), EntryLang(entries[i]))

\* C6, witness: a user with a documented and an undocumented solution, on two
\* days and in two languages, the pages written from a scan that listed the
\* later day and the later language first
C6_Witness ==
    /\ UserDocsWritten
    /\ \E u \in UsersOf(sols) :
          LET mine == sols_for_users(sols, u) IN
          /\ Len(mine) >= 3
          /\ \E i, j \in DOMAIN mine :
                /\ i < j /\ mine[i].day > mine[j].day
                /\ mine[i].readme_file # None /\ mine[j].readme_file = None
          /\ \E i, j \in DOMAIN mine :
                /\ i < j /\ mine[i].day = mine[j].day
                /\ StrLess(mine[j].lang, mine[i].lang)

(***************************************************************************)
(* C7                                                                      *)
(***************************************************************************)
\* what a row of an overview says: the day and the user it links to
RowFacts(row) == <<AnchorDay(row.frag), row.label>>

LangOverviewOk ==
    LET secs == LangSections IN
    /\ \A i, j \in DOMAIN secs : i < j => StrLess(secs[i].title, secs[j].title)
    /\ {secs[i].title : i \in DOMAIN secs} = {sols[i].lang : i \in DOMAIN sols}
    /\ Len(OfKind(LinesOf(ADOC_BY_LANG_FILE), "row")) = Len(sols)
    /\ Len(AllRows(secs)) = Len(sols)
    /\ \A k \in DOMAIN secs :
          LET of == SelectSeq(sols, LAMBDA sol : sol.lang = secs[k].title) IN
          SameBag([i \in DOMAIN secs[k].rows |-> RowFacts(secs[k].rows[i])],
                  [i \in DOMAIN of |-> <<Some(of[i].day), of[i].user>>])

DayOverviewOk ==
    LET secs == DaySections IN
    /\ \A i \in DOMAIN secs : HeadingDay(secs[i].title) # None
    /\ \A i, j \in DOMAIN secs :
          i < j => HeadingDay(secs[i].title)[1] < HeadingDay(secs[j].title)[1]
    /\ {HeadingDay(secs[i].title)[1] : i \in DOMAIN secs} = {sols[i].day : i \in DOMAIN sols}
    /\ Len(OfKind(LinesOf(ADOC_BY_DAY_FILE), "row")) = Len(sols)
    /\ Len(AllRows(secs)) = Len(sols)
    /\ \A k \in DOMAIN secs :
          LET of == SelectSeq(sols, LAMBDA sol : Some(sol.day) = HeadingDay(secs[k].title)) IN
          SameBag([i \in DOMAIN secs[k].rows |-> RowFacts(secs[k].rows[i])],
                  [i \in DOMAIN of |-> <<Some(of[i].day), of[i].user>>])

\* C7: each overview has one section heading per language (per day) of the
\* input, the headings ascend, every solution has one row and it is in the
\* section of its language (its day); without solutions there is no section
C7_Sections ==
    /\ LangDocWritten => LangOverviewOk
    /\ DayDocWritten => DayOverviewOk
    /\ (DayDocWritten /\ sols = <<>>) =>
          /\ OfKind(LinesOf(ADOC_BY_LANG_FILE), "section") = <<>>
          /\ OfKind(LinesOf(ADOC_BY_DAY_FILE), "section") = <<>>

\* C7, witness: both overviews written for three solutions in two languages
\* and on two days, scanned out of order
C7_Witness ==
    /\ DayDocWritten
    /\ Len(sols) = 3
    /\ Len(LangSections) = 2 /\ Len(DaySections) = 2
    /\ StrLess(sols[3].lang, sols[1].lang)
    /\ \E i, j \in DOMAIN sols : i < j /\ sols[j].day < sols[i].day

(***************************************************************************)
(* C8                                                                      *)
(***************************************************************************)
NoOutput == [files |-> [p \in {} |-> <<>>], dirs |-> {}]

\* the files each writer writes
WrittenByUser == DOMAIN make_user_docs(NoOutput, sols, ADOC_BY_USER_FILE).files
WrittenByLang == DOMAIN make_lang_doc(NoOutput, sols, ADOC_BY_LANG_FILE).files
WrittenByDay == DOMAIN make_day_doc(NoOutput, sols, ADOC_BY_DAY_FILE).files

\* the module body as written: user, language, day
Sequential ==
    make_day_doc(make_lang_doc(make_user_docs(NoOutput, sols, ADOC_BY_USER_FILE),
                               sols, ADOC_BY_LANG_FILE),
                 sols, ADOC_BY_DAY_FILE)

\* C8: the three writers write pairwise disjoint sets of files, and however
\* they are ordered or interleaved the files end up as the sequence user,
\* language, day leaves them
C8_AnyOrder ==
    /\ (pc = "make_user_docs" /\ frames = InitFrames) =>
          /\ WrittenByUser \cap WrittenByLang = {}
          /\ WrittenByUser \cap WrittenByDay = {}
          /\ WrittenByLang \cap WrittenByDay = {}
    /\ pc = "done" => files = Sequential.files /\ dirs = Sequential.dirs

\* C8, witness: all three writers are inside their loops, the day overview ahead
\* of the language overview ahead of the user pages, with a user named by_lang
C8_Witness ==
    /\ pc = "make_user_docs"
    /\ frames.user.pc = "loop" /\ frames.lang.pc = "loop" /\ frames.day.pc = "loop"
    /\ frames.user.i = 1 /\ frames.lang.i = 2 /\ frames.day.i = 3
    /\ ByLang \in UsersOf(sols)
    /\ Len(sols) >= 3

(***************************************************************************)
(* C9                                                                      *)
(***************************************************************************)
Reordered(ss) ==
    {[i \in DOMAIN ss |-> ss[q[i]]] : q \in Permutations(DOMAIN ss)}

OutputOf(ss) ==
    make_day_doc(make_lang_doc(make_user_docs(NoOutput, ss, ADOC_BY_USER_FILE),
                               ss, ADOC_BY_LANG_FILE),
                 ss, ADOC_BY_DAY_FILE).files

\* C9: every output file has the same contents for every order in which the
\* scanner could have listed the same solutions
C9_Claim ==
    pc = "done" => \A ss \in Reordered(sols) : OutputOf(ss) = files

(***************************************************************************)
(* C10                                                                     *)
(***************************************************************************)
OverviewRows ==
    OfKind(LinesOf(ADOC_BY_LANG_FILE), "row") \o OfKind(LinesOf(ADOC_BY_DAY_FILE), "row")

AnchorsOf(user) ==
    LET entries == PageEntries(PageOf(user)) IN [i \in DOMAIN entries |-> entries[i].anchor]

\* C10: every link of the two overviews names the page of a user and an anchor
\* that tags exactly one entry of that page: the anchors of the entries of a
\* page are pairwise distinct
C10_Claim ==
    pc = "done" =>
        /\ \A i \in DOMAIN OverviewRows :
              LET row == OverviewRows[i] IN
              /\ row.label \in UsersOf(sols)
              /\ row.href = UserHref(row.label)
              /\ Count(AnchorsOf(row.label), row.frag) = 1
        /\ \A u \in UsersOf(sols) :
              \A i, j \in DOMAIN AnchorsOf(u) :
                  i # j => AnchorsOf(u)[i] # AnchorsOf(u)[j]

====
